---------------------------- MODULE Spec2Model ----------------------------
(***************************************************************************)
(* Model of iota/transaction/base.py: the Transaction wire codec           *)
(* (from_tryte_string / as_tryte_string / get_signature_validation_trytes  *)
(* / legacy_tag) and the Bundle aggregate (construction, is_confirmed,     *)
(* hash, group_transactions, get_messages, as_tryte_strings).              *)
(*                                                                         *)
(* A TryteString is a sequence over 0..26, the index of each tryte in the  *)
(* alphabet "9ABCDEFGHIJKLMNOPQRSTUVWXYZ" (0 is '9', 1 is 'A', 26 is 'Z'). *)
(* An absent object (Python's None) is the empty sequence; the tri-state   *)
(* confirmation flag is one of "None", "True", "False".  Fields keep their *)
(* wire widths: a body is a sequence of 2673 trytes.                       *)
(*                                                                         *)
(* Three specifications share the variables:                               *)
(*   SpecTransaction  one Transaction, decoded from a body or built from   *)
(*                    fields, and its encodings;                           *)
(*   Spec             one Bundle built from bodies, and its queries;       *)
(*   SpecConfirmed    one Bundle built from bodies, and its flag.          *)
(* The modules base.py imports (iota.types, iota.trits, iota.codecs,       *)
(* iota.crypto) are modelled by what they do on the inputs of the model.   *)
(***************************************************************************)
EXTENDS Integers, Sequences, FiniteSets, TLC

VARIABLES
  trytes,        \* the wire trytes handed to Transaction.from_tryte_string
  txn,           \* the Transaction object, or None before it exists
  transactions,  \* Bundle.transactions, or None before the Bundle exists
  is_confirmed,  \* Bundle._is_confirmed
  inputs,        \* the iterable that was handed to Bundle.__init__
  op,            \* the last operation that ran
  arg,           \* its argument
  out            \* what it returned (or the exception it raised)

vars == <<trytes, txn, transactions, is_confirmed, inputs, op, arg, out>>

None == <<>>

Flags == {"None", "True", "False"}

-----------------------------------------------------------------------------
(* Bounds of the model.                                                    *)

\* Numeric field contents range over -MaxInt..MaxInt.
MaxInt == 2
\* A Bundle is built from at most MaxTxns transactions.
MaxTxns == 3

-----------------------------------------------------------------------------
(* Field layout of the 2673-tryte body (from_tryte_string's slices).       *)

FragmentLen == 2187
HashLen     == 81
ValueLen    == 27
TagLen      == 27
IntLen      == 9
NonceLen    == 27
BodyLen     == 2673

Max(a, b) == IF a >= b THEN a ELSE b

Nines(n) == [i \in 1..n |-> 0]

\* TryteString(trytes, pad=n): right-pad with '9'.
Pad(s, n) == s \o Nines(Max(0, n - Len(s)))

\* Python slice s[a:b] (0-based, end exclusive).
Slice(s, a, b) == SubSeq(s, a + 1, b)

-----------------------------------------------------------------------------
(* iota.trits and iota.types: the ternary codec.                           *)

\* Value of a tryte: '9' is 0, 'A'..'M' are 1..13, 'N'..'Z' are -13..-1.
TryteValue(c) == IF c <= 13 THEN c ELSE c - 27

TryteIndex(v) == IF v >= 0 THEN v ELSE v + 27

RECURSIVE trits_from_int(_, _)
trits_from_int(n, pad) ==
  LET trits ==
        IF n = 0 THEN <<>>
        ELSE LET remainder == n % 3
                 quotient  == (n - remainder) \div 3
             IN  IF remainder = 2
                   THEN <<-1>> \o trits_from_int(quotient + 1, 0)
                   ELSE <<remainder>> \o trits_from_int(quotient, 0)
  IN  trits \o Nines(Max(0, pad - Len(trits)))

MaxOf(S) == IF S = {} THEN 0 ELSE CHOOSE x \in S : \A y \in S : y <= x

\* The sum of trits[j] * 3 ** (j - i) over the positions j from i to n.
RECURSIVE IntFrom(_, _, _)
IntFrom(trits, i, n) ==
  IF i > n THEN 0 ELSE trits[i] + 3 * IntFrom(trits, i + 1, n)

\* sum(base * 3 ** power for power, base in enumerate(trits)); the zero
\* trits above the last trit that is not zero add nothing.
int_from_trits(trits) ==
  IntFrom(trits, 1, MaxOf({j \in 1..Len(trits) : trits[j] # 0}))

\* TryteString.as_trits: three trits per tryte, least significant first.
as_trits(s) ==
  [i \in 1..(3 * Len(s)) |->
     trits_from_int(TryteValue(s[((i - 1) \div 3) + 1]), 3)[((i - 1) % 3) + 1]]

\* TryteString.from_trits: pads to a multiple of 3, three trits per tryte.
from_trits(t) ==
  LET p == t \o Nines((3 - (Len(t) % 3)) % 3)
  IN  [i \in 1..(Len(p) \div 3) |->
         TryteIndex(p[3 * i - 2] + 3 * p[3 * i - 1] + 9 * p[3 * i])]

\* bool(s) of None or of a TryteString (TryteString.__bool__): None, the
\* empty string and a string of nothing but '9' are falsy.
Truthy(s) == \E i \in 1..Len(s) : s[i] # 0

\* Python's "a or b".
Or(a, b) == IF Truthy(a) THEN a ELSE b

\* Address.address: the address without its checksum.
AddressOf(a) == SubSeq(a, 1, HashLen)

\* Stand-in for Curl (absorb the body, squeeze 81 trytes): a digest that
\* is a function of the body; tryte i of it mixes tryte i of the fragment
\* and of the 81-tryte blocks from the address on.
Curl(s) ==
  [i \in 1..HashLen |->
     (s[i] + 2 * s[i + 2187] + 3 * s[i + 2268] + 5 * s[i + 2349]
        + 7 * s[i + 2430] + 11 * s[i + 2511] + 13 * s[i + 2592]) % 27]

-----------------------------------------------------------------------------
(* class Transaction                                                       *)

\* Transaction.__init__
Transaction(hash_, signature_message_fragment, address, value, timestamp, current_index, last_index, bundle_hash, trunk_transaction_hash, branch_transaction_hash, tag, attachment_timestamp, attachment_timestamp_lower_bound, attachment_timestamp_upper_bound, nonce, legacy_tag) ==
  [ hash                             |-> hash_,
    bundle_hash                      |-> bundle_hash,
    address                          |-> address,
    value                            |-> value,
    legacy_tag_                      |-> legacy_tag,
    nonce                            |-> nonce,
    timestamp                        |-> timestamp,
    current_index                    |-> current_index,
    last_index                       |-> last_index,
    trunk_transaction_hash           |-> trunk_transaction_hash,
    branch_transaction_hash          |-> branch_transaction_hash,
    tag                              |-> tag,
    attachment_timestamp             |-> attachment_timestamp,
    attachment_timestamp_lower_bound |-> attachment_timestamp_lower_bound,
    attachment_timestamp_upper_bound |-> attachment_timestamp_upper_bound,
    signature_message_fragment       |-> signature_message_fragment,
    is_confirmed                     |-> "None" ]

\* Transaction.from_tryte_string
from_tryte_string(tryte_string, hash_) ==
  Transaction(
    IF ~Truthy(hash_) THEN Curl(tryte_string) ELSE hash_,
    Slice(tryte_string, 0, 2187),
    Slice(tryte_string, 2187, 2268),
    int_from_trits(as_trits(Slice(tryte_string, 2268, 2295))),
    int_from_trits(as_trits(Slice(tryte_string, 2322, 2331))),
    int_from_trits(as_trits(Slice(tryte_string, 2331, 2340))),
    int_from_trits(as_trits(Slice(tryte_string, 2340, 2349))),
    Slice(tryte_string, 2349, 2430),
    Slice(tryte_string, 2430, 2511),
    Slice(tryte_string, 2511, 2592),
    Slice(tryte_string, 2592, 2619),
    int_from_trits(as_trits(Slice(tryte_string, 2619, 2628))),
    int_from_trits(as_trits(Slice(tryte_string, 2628, 2637))),
    int_from_trits(as_trits(Slice(tryte_string, 2637, 2646))),
    Slice(tryte_string, 2646, 2673),
    Slice(tryte_string, 2295, 2322))

value_as_trytes(self) == from_trits(trits_from_int(self.value, 81))

timestamp_as_trytes(self) == from_trits(trits_from_int(self.timestamp, 27))

current_index_as_trytes(self) ==
  from_trits(trits_from_int(self.current_index, 27))

last_index_as_trytes(self) == from_trits(trits_from_int(self.last_index, 27))

attachment_timestamp_as_trytes(self) ==
  from_trits(trits_from_int(self.attachment_timestamp, 27))

attachment_timestamp_lower_bound_as_trytes(self) ==
  from_trits(trits_from_int(self.attachment_timestamp_lower_bound, 27))

attachment_timestamp_upper_bound_as_trytes(self) ==
  from_trits(trits_from_int(self.attachment_timestamp_upper_bound, 27))

\* Transaction.legacy_tag (the property)
legacy_tag(self) == Or(self.legacy_tag_, self.tag)

\* Transaction.as_tryte_string
as_tryte_string(self) ==
     self.signature_message_fragment
  \o AddressOf(self.address)
  \o value_as_trytes(self)
  \o legacy_tag(self)
  \o timestamp_as_trytes(self)
  \o current_index_as_trytes(self)
  \o last_index_as_trytes(self)
  \o self.bundle_hash
  \o self.trunk_transaction_hash
  \o self.branch_transaction_hash
  \o self.tag
  \o attachment_timestamp_as_trytes(self)
  \o attachment_timestamp_lower_bound_as_trytes(self)
  \o attachment_timestamp_upper_bound_as_trytes(self)
  \o self.nonce

\* As get_signature_validation_trytes, were the tag taken for the legacy tag.
get_signature_validation_trytes_tag(self) ==
     AddressOf(self.address)
  \o value_as_trytes(self)
  \o self.tag
  \o timestamp_as_trytes(self)
  \o current_index_as_trytes(self)
  \o last_index_as_trytes(self)

\* Transaction.get_signature_validation_trytes
get_signature_validation_trytes(self) ==
     AddressOf(self.address)
  \o value_as_trytes(self)
  \o legacy_tag(self)
  \o timestamp_as_trytes(self)
  \o current_index_as_trytes(self)
  \o last_index_as_trytes(self)

-----------------------------------------------------------------------------
(* Outcome of a call: what it returned, or the exception it raised.        *)

Return(x) == [raise |-> "", val |-> x]

Raise(e) == [raise |-> e, val |-> None]

-----------------------------------------------------------------------------
(* TryteString.decode(errors): trytes to bytes, bytes to text (UTF-8).     *)
(* A byte that is no ASCII character is taken to be invalid UTF-8: no      *)
(* fragment of the model holds a multi-byte sequence.                      *)

\* Trailing '9' padding is stripped; one '9' is put back to keep the
\* length even.
StripPadding(s) ==
  IF Len(s) = 0 \/ s[Len(s)] # 0 THEN s
  ELSE LET last == MaxOf({i \in 1..Len(s) : s[i] # 0})
       IN  SubSeq(s, 1, last + (last % 2))

\* One byte per pair of trytes; -1 where the pair is no byte (over 255, or
\* the odd tryte at the end).
BytesOf(s) ==
  [i \in 1..((Len(s) + 1) \div 2) |->
     IF 2 * i > Len(s) THEN -1
     ELSE LET b == s[2 * i - 1] + 27 * s[2 * i]
          IN  IF b > 255 THEN -1 ELSE b]

IsAscii(b) == b # -1 /\ b < 128

decode(s, errors) ==
  LET bytes == BytesOf(StripPadding(s))
  IN  CASE errors = "strict" ->
             IF \E i \in 1..Len(bytes) : bytes[i] = -1
               THEN Raise("TrytesDecodeError")
             ELSE IF \E i \in 1..Len(bytes) : bytes[i] >= 128
               THEN Raise("UnicodeDecodeError")
             ELSE Return(bytes)
        [] errors = "replace" ->
             Return([i \in 1..Len(bytes) |->
                       IF bytes[i] = -1 THEN 63
                       ELSE IF bytes[i] >= 128 THEN 65533
                       ELSE bytes[i]])
        [] errors = "ignore" -> Return(SelectSeq(bytes, IsAscii))

-----------------------------------------------------------------------------
(* class Bundle                                                            *)

\* As sorted, were the sort not stable: each element goes before the
\* elements before it that have its key.
RECURSIVE sorted_unstable(_)
sorted_unstable(s) ==
  IF Len(s) = 0 THEN <<>>
  ELSE LET init == sorted_unstable(SubSeq(s, 1, Len(s) - 1))
           x    == s[Len(s)]
           k    == Cardinality({i \in 1..Len(init) :
                                  init[i].current_index < x.current_index})
       IN  SubSeq(init, 1, k) \o <<x>> \o SubSeq(init, k + 1, Len(init))

\* sorted(transactions, key=attrgetter('current_index')): each element goes
\* behind the elements before it whose key is not greater.
RECURSIVE sorted(_)
sorted(s) ==
  IF Len(s) = 0 THEN <<>>
  ELSE LET init == sorted(SubSeq(s, 1, Len(s) - 1))
           x    == s[Len(s)]
           k    == Cardinality({i \in 1..Len(init) :
                                  init[i].current_index <= x.current_index})
       IN  SubSeq(init, 1, k) \o <<x>> \o SubSeq(init, k + 1, Len(init))

\* Bundle.__init__: the transactions list the constructor leaves.
Bundle(txs) == IF Len(txs) # 0 THEN <<>> \o sorted(txs) ELSE <<>>

\* Bundle.from_tryte_strings
from_tryte_strings(bodies) ==
  Bundle([i \in 1..Len(bodies) |-> from_tryte_string(bodies[i], None)])

\* Bundle.__getitem__
getitem(self, index) ==
  IF index + 1 > Len(self) THEN Raise("IndexError")
  ELSE Return(self[index + 1])

\* Bundle.tail_transaction
tail_transaction(self) == getitem(self, 0)

\* As hash, were the IndexError not caught.
hash_uncaught(self) ==
  LET tail == tail_transaction(self)
  IN  IF tail.raise # "" THEN tail ELSE Return(tail.val.bundle_hash)

\* Bundle.hash
hash(self) ==
  LET tail == tail_transaction(self)
  IN  IF tail.raise = "IndexError" THEN Return(None)
      ELSE IF tail.raise # "" THEN tail
      ELSE Return(tail.val.bundle_hash)

\* As the setter, were the loop over the transactions left out.
set_is_confirmed_bundle_only(self, new_is_confirmed) == self

\* Bundle.is_confirmed (the setter): the transactions list it leaves.
set_is_confirmed(self, new_is_confirmed) ==
  [i \in 1..Len(self) |->
     [self[i] EXCEPT !.is_confirmed = new_is_confirmed]]

\* The loop of group_transactions from position i on.
RECURSIVE GroupLoop(_, _, _, _, _)
GroupLoop(self, i, groups, current_group, last_txn) ==
  IF i > Len(self)
    THEN IF Len(current_group) # 0 THEN Append(groups, current_group)
         ELSE groups
  ELSE LET current_txn == self[i]
       IN  IF current_txn.address = last_txn.address
             THEN GroupLoop(self, i + 1, groups,
                            Append(current_group, current_txn), current_txn)
             ELSE GroupLoop(self, i + 1, Append(groups, current_group),
                            <<current_txn>>, current_txn)

\* As group_transactions, were the loop run over self.transactions and not
\* self.transactions[1:].
group_transactions_unsliced(self) ==
  IF Len(self) # 0
    THEN GroupLoop(self, 1, <<>>, <<self[1]>>, self[1])
    ELSE <<>>

\* Bundle.group_transactions
group_transactions(self) ==
  IF Len(self) # 0
    THEN GroupLoop(self, 2, <<>>, <<self[1]>>, self[1])
    ELSE <<>>

\* message_trytes of a group: its fragments, concatenated.
RECURSIVE message_trytes(_, _)
message_trytes(group, n) ==
  IF n = 0 THEN <<>>
  ELSE message_trytes(group, n - 1) \o group[n].signature_message_fragment

\* As IsInput, were every transaction of the group looked at.
IsInput_any(group) == \E i \in 1..Len(group) : group[i].value < 0

\* "Ignore inputs": the group's first transaction spends.
IsInput(group) == group[1].value < 0

\* As Suppressed, were the exception never raised again.
Suppressed_always(raised, errors) ==
  raised \in {"TrytesDecodeError", "UnicodeDecodeError"}

\* The except clause of get_messages: the exception is caught and, under
\* 'drop', not raised again.
Suppressed(raised, errors) ==
  raised \in {"TrytesDecodeError", "UnicodeDecodeError"} /\ errors = "drop"

\* The loop of get_messages over the groups from position i on.
RECURSIVE MessagesLoop(_, _, _, _)
MessagesLoop(groups, i, errors, messages) ==
  IF i > Len(groups) THEN Return(messages)
  ELSE LET group == groups[i]
           buf   == message_trytes(group, Len(group))
           got   == decode(buf, IF errors = "drop" THEN "strict" ELSE errors)
       IN  IF IsInput(group)
             THEN MessagesLoop(groups, i + 1, errors, messages)
           ELSE IF ~Truthy(buf)
             THEN MessagesLoop(groups, i + 1, errors, messages)
           ELSE IF got.raise = ""
             THEN MessagesLoop(groups, i + 1, errors,
                               Append(messages, got.val))
           ELSE IF Suppressed(got.raise, errors)
             THEN MessagesLoop(groups, i + 1, errors, messages)
           ELSE got

\* Bundle.get_messages
get_messages(self, errors) ==
  MessagesLoop(group_transactions(self), 1, errors, <<>>)

Reversed(s) == [i \in 1..Len(s) |-> s[Len(s) + 1 - i]]

\* As as_tryte_strings, were the order reversed when head_to_tail is true.
as_tryte_strings_swapped(self, head_to_tail) ==
  LET ts == IF head_to_tail THEN Reversed(self) ELSE self
  IN  [i \in 1..Len(ts) |-> as_tryte_string(ts[i])]

\* Bundle.as_tryte_strings
as_tryte_strings(self, head_to_tail) ==
  LET ts == IF head_to_tail THEN self ELSE Reversed(self)
  IN  [i \in 1..Len(ts) |-> as_tryte_string(ts[i])]

-----------------------------------------------------------------------------
(* Inputs of the transaction codec.                                        *)

Ints == (0 - MaxInt)..MaxInt

IntTrytes(n, len) == from_trits(trits_from_int(n, 3 * len))

\* Contents of a tryte field: blank (all '9'), or marked with the tryte m.
Field(m, len) == {Nines(len), Pad(<<m>>, len), Pad(<<0, m>>, len)}

\* The three hashes after last_index, varied together.
Hashes ==
  { Nines(HashLen) \o Nines(HashLen) \o Nines(HashLen),
    Pad(<<2>>, HashLen) \o Pad(<<20>>, HashLen) \o Pad(<<0, 0, 26>>, HashLen) }

\* The three attachment timestamps, varied together.
Stamps ==
  { IntTrytes(a, IntLen) \o IntTrytes(a + 1, IntLen) \o IntTrytes(0 - a, IntLen)
      : a \in {0, MaxInt} }

\* Syntactically valid 2673-tryte bodies.
Bodies ==
  { f \o a \o IntTrytes(v, ValueLen) \o lt \o IntTrytes(ts, IntLen)
      \o IntTrytes(ci, IntLen) \o IntTrytes(0 - ci, IntLen) \o h \o t \o s \o n
    : f \in {Nines(FragmentLen), Pad(<<8, 3>>, FragmentLen)},
      a \in {Pad(<<1>>, HashLen)},
      v \in Ints, lt \in Field(12, TagLen), ts \in {0, MaxInt},
      ci \in {0, MaxInt}, h \in Hashes, t \in Field(20, TagLen),
      s \in Stamps, n \in {Pad(<<14>>, NonceLen)} }

\* Transactions built directly from decoded fields; the address may carry
\* its 9-tryte checksum, the legacy tag may be left out.
Direct ==
  { Transaction(Pad(<<8>>, HashLen), Pad(<<8, 3>>, FragmentLen), a, v, MaxInt,
                0, MaxInt, Pad(<<2>>, HashLen), Pad(<<20>>, HashLen),
                Nines(HashLen), t, 0, 1, 0 - 1, Pad(<<14>>, NonceLen), lt)
    : a \in {Pad(<<1>>, HashLen), Pad(<<1>>, HashLen) \o <<3, 8, 5, 3, 11, 19, 21, 13, 0>>},
      v \in Ints, t \in Field(20, TagLen),
      lt \in {None} \cup Field(12, TagLen) }

-----------------------------------------------------------------------------
(* Inputs of the bundle: bodies that differ in address, value,             *)
(* current_index, message fragment and bundle hash.                        *)

Body(fragment, address, value, current_index, bundle_hash) ==
     Pad(fragment, FragmentLen) \o Pad(address, HashLen)
  \o IntTrytes(value, ValueLen) \o Nines(TagLen) \o IntTrytes(0, IntLen)
  \o IntTrytes(current_index, IntLen) \o IntTrytes(2, IntLen)
  \o Pad(bundle_hash, HashLen) \o Nines(HashLen) \o Nines(HashLen)
  \o Nines(TagLen) \o Nines(IntLen) \o Nines(IntLen) \o Nines(IntLen)
  \o Nines(NonceLen)

BundleBodies ==
  { Body(<<18, 2, 19, 2>>, <<1>>, 1,     0, <<24>>),   \* "HI"
    Body(<<11, 2>>,        <<1>>, 0 - 1, 0, <<25>>),   \* "A", an input
    Body(<<26, 26>>,       <<2>>, 0,     1, <<24>>),   \* no byte: ZZ
    Body(<<>>,             <<2>>, 1,     1, <<25>>),   \* blank
    Body(<<11, 2>>,        <<1>>, 1,     2, <<24>>),   \* "A"
    Body(<<20, 4>>,        <<2>>, 0,     2, <<25>>) }  \* byte 0x80: no UTF-8

\* The sequences of at most n different elements of S, in every order.
RECURSIVE SeqsUpTo(_, _)
SeqsUpTo(S, n) ==
  IF n = 0 THEN {<<>>}
  ELSE LET shorter == SeqsUpTo(S, n - 1)
       IN  shorter \cup
           UNION {{Append(q, x) : x \in S \ {q[i] : i \in 1..Len(q)}}
                    : q \in shorter}

Policies == {"drop", "strict", "replace", "ignore"}

-----------------------------------------------------------------------------
(* The state machine.                                                      *)

Init ==
  /\ trytes = None
  /\ txn = None
  /\ transactions = None
  /\ is_confirmed = "None"
  /\ inputs = None
  /\ op = "none"
  /\ arg = None
  /\ out = Return(None)

Bundle_unchanged == UNCHANGED <<transactions, is_confirmed, inputs>>

Transaction_unchanged == UNCHANGED <<trytes, txn>>

TransactionOps ==
  {"from_tryte_string", "Transaction", "as_tryte_string",
   "get_signature_validation_trytes", "legacy_tag"}

BundleOps ==
  {"from_tryte_strings", "is_confirmed", "hash", "group_transactions",
   "get_messages", "as_tryte_strings"}

\* txn = Transaction.from_tryte_string(b, h)
FromTryteString(b, h) ==
  /\ op = "none"
  /\ Len(b) = BodyLen
  /\ trytes' = b
  /\ txn' = from_tryte_string(b, h)
  /\ op' = "from_tryte_string"
  /\ arg' = h
  /\ out' = Return(None)
  /\ Bundle_unchanged

\* txn = Transaction(...), built from decoded fields
TransactionInit(t) ==
  /\ op = "none"
  /\ txn' = t
  /\ op' = "Transaction"
  /\ arg' = None
  /\ out' = Return(None)
  /\ UNCHANGED trytes
  /\ Bundle_unchanged

\* out = txn.as_tryte_string()
AsTryteString ==
  /\ op \in TransactionOps
  /\ op' = "as_tryte_string"
  /\ out' = Return(as_tryte_string(txn))
  /\ arg' = None
  /\ Transaction_unchanged
  /\ Bundle_unchanged

\* out = txn.get_signature_validation_trytes()
GetSignatureValidationTrytes ==
  /\ op \in TransactionOps
  /\ op' = "get_signature_validation_trytes"
  /\ out' = Return(get_signature_validation_trytes(txn))
  /\ arg' = None
  /\ Transaction_unchanged
  /\ Bundle_unchanged

\* out = txn.legacy_tag
LegacyTag ==
  /\ op \in TransactionOps
  /\ op' = "legacy_tag"
  /\ out' = Return(legacy_tag(txn))
  /\ arg' = None
  /\ Transaction_unchanged
  /\ Bundle_unchanged

NextTransaction ==
  \/ \E b \in Bodies, h \in {None, Pad(<<8>>, HashLen)} : FromTryteString(b, h)
  \/ \E t \in Direct : TransactionInit(t)
  \/ AsTryteString
  \/ GetSignatureValidationTrytes
  \/ LegacyTag

SpecTransaction == Init /\ [][NextTransaction]_vars

\* bundle = Bundle.from_tryte_strings(bodies)
FromTryteStrings(bodies) ==
  /\ op = "none"
  /\ inputs' = [i \in 1..Len(bodies) |-> from_tryte_string(bodies[i], None)]
  /\ transactions' = from_tryte_strings(bodies)
  /\ is_confirmed' = "None"
  /\ op' = "from_tryte_strings"
  /\ arg' = None
  /\ out' = Return(None)
  /\ Transaction_unchanged

\* bundle.is_confirmed = v
SetConfirmed(v) ==
  /\ op \in BundleOps
  /\ is_confirmed' = v
  /\ transactions' = set_is_confirmed(transactions, v)
  /\ op' = "is_confirmed"
  /\ arg' = v
  /\ out' = Return(None)
  /\ UNCHANGED inputs
  /\ Transaction_unchanged

\* out = bundle.hash
Hash ==
  /\ op \in BundleOps
  /\ op' = "hash"
  /\ arg' = None
  /\ out' = hash(transactions)
  /\ Bundle_unchanged
  /\ Transaction_unchanged

\* out = bundle.group_transactions()
GroupTransactions ==
  /\ op \in BundleOps
  /\ op' = "group_transactions"
  /\ arg' = None
  /\ out' = Return(group_transactions(transactions))
  /\ Bundle_unchanged
  /\ Transaction_unchanged

\* out = bundle.get_messages(errors)
GetMessages(errors) ==
  /\ op \in BundleOps
  /\ op' = "get_messages"
  /\ arg' = errors
  /\ out' = get_messages(transactions, errors)
  /\ Bundle_unchanged
  /\ Transaction_unchanged

\* out = bundle.as_tryte_strings(head_to_tail)
AsTryteStrings(head_to_tail) ==
  /\ op \in BundleOps
  /\ op' = "as_tryte_strings"
  /\ arg' = head_to_tail
  /\ out' = Return(as_tryte_strings(transactions, head_to_tail))
  /\ Bundle_unchanged
  /\ Transaction_unchanged

\* The bundle and its queries.
Next ==
  \/ \E bodies \in SeqsUpTo(BundleBodies, MaxTxns) : FromTryteStrings(bodies)
  \/ Hash
  \/ GroupTransactions
  \/ \E errors \in Policies : GetMessages(errors)
  \/ \E head_to_tail \in BOOLEAN : AsTryteStrings(head_to_tail)

Spec == Init /\ [][Next]_vars

\* The bundle and its confirmation flag.  No query writes a flag and the
\* setter changes nothing a query reads, so the two are explored apart.
NextConfirmed ==
  \/ \E bodies \in SeqsUpTo(BundleBodies, MaxTxns) : FromTryteStrings(bodies)
  \/ \E v \in Flags : SetConfirmed(v)

SpecConfirmed == Init /\ [][NextConfirmed]_vars

-----------------------------------------------------------------------------
(* The claims.                                                             *)

Built == op \in BundleOps

\* A transaction as it was before any confirmation flag was written.
Clear(t) == [t EXCEPT !.is_confirmed = "None"]

Perms(n) ==
  {p \in [1..n -> 1..n] : \A i, j \in 1..n : p[i] = p[j] => i = j}

RECURSIVE Concat(_, _)
Concat(groups, n) ==
  IF n = 0 THEN <<>> ELSE Concat(groups, n - 1) \o groups[n]

Buffer(group) == message_trytes(group, Len(group))

FirstNotNegative(group) == group[1].value >= 0

MessageBearing(group) == group[1].value >= 0 /\ Truthy(Buffer(group))

DecodesStrictly(group) == decode(Buffer(group), "strict").raise = ""

DecodePolicy(errors) == IF errors = "drop" THEN "strict" ELSE errors

\* The wire slots of the legacy tag and of the tag.
LegacyTagSlot(b) == Slice(b, 2295, 2322)

TagSlot(b) == Slice(b, 2592, 2619)

Decoded == op \in TransactionOps /\ Len(trytes) = BodyLen

\* C1: for every syntactically valid 2673-tryte body b,
\* Transaction.from_tryte_string(b).as_tryte_string() equals b, the legacy
\* tag slot included whatever it holds.
C1_RoundTrip ==
  (Decoded /\ op = "as_tryte_string") => out.val = trytes

\* What the code does keep of C1: the body comes back whenever its legacy
\* tag slot holds a tryte other than '9' or equals its tag slot, and
\* otherwise every slot but the legacy tag's comes back, which holds the tag.
C1_RoundTripButBlankLegacyTag ==
  (Decoded /\ op = "as_tryte_string") =>
     /\ Len(out.val) = BodyLen
     /\ Slice(out.val, 0, 2295) = Slice(trytes, 0, 2295)
     /\ Slice(out.val, 2322, 2673) = Slice(trytes, 2322, 2673)
     /\ LegacyTagSlot(out.val) =
          IF Truthy(LegacyTagSlot(trytes)) THEN LegacyTagSlot(trytes)
          ELSE TagSlot(trytes)

\* C8: legacy_tag reads as the explicit legacy tag whenever one was given to
\* the constructor, whatever its trytes, and as tag exactly when none was.
C8_LegacyTag ==
  (op = "legacy_tag") =>
     out.val = IF Len(txn.legacy_tag_) # 0 THEN txn.legacy_tag_ ELSE txn.tag

\* What the code does keep of C8: a transaction built without a legacy tag
\* reads legacy_tag = tag, and a legacy tag holding a tryte other than '9'
\* is read back.
C8_LegacyTagUnlessBlank ==
  (op = "legacy_tag") =>
     out.val = IF Truthy(txn.legacy_tag_) THEN txn.legacy_tag_ ELSE txn.tag

\* C10: get_signature_validation_trytes() is address, value, legacy_tag,
\* timestamp, current_index, last_index in this order, the numbers at the
\* widths of as_tryte_string (27, 9, 9, 9 trytes): the slice [2187:2349] of
\* the transaction's encoded body, 162 trytes long.
C10_SignatureValidationTrytes ==
  (op = "get_signature_validation_trytes") =>
     /\ out.val = AddressOf(txn.address)
                    \o IntTrytes(txn.value, ValueLen)
                    \o legacy_tag(txn)
                    \o IntTrytes(txn.timestamp, IntLen)
                    \o IntTrytes(txn.current_index, IntLen)
                    \o IntTrytes(txn.last_index, IntLen)
     /\ out.val = Slice(as_tryte_string(txn), 2187, 2349)
     /\ Len(out.val) = 162

\* C10's case: the trytes were asked of a transaction whose legacy tag and
\* tag differ, whose address carries a checksum and whose value is negative.
C10_Witness ==
  /\ op = "get_signature_validation_trytes"
  /\ Truthy(txn.legacy_tag_)
  /\ txn.legacy_tag_ # txn.tag
  /\ Truthy(txn.tag)
  /\ Len(txn.address) > HashLen
  /\ txn.value < 0
  /\ Slice(out.val, 108, 135) = txn.legacy_tag_

\* C2: the transactions of a constructed Bundle are a permutation of the
\* input, ascending by current_index, and two transactions with the same
\* current_index keep the order they had in the input.
C2_StableSort ==
  Built =>
    LET n == Len(inputs)
    IN  /\ Len(transactions) = n
        /\ \A i \in 1..(n - 1) :
             transactions[i].current_index <= transactions[i + 1].current_index
        /\ \E p \in Perms(n) :
             /\ \A i \in 1..n : Clear(transactions[i]) = inputs[p[i]]
             /\ \A i, j \in 1..n :
                  (i < j /\ transactions[i].current_index
                              = transactions[j].current_index) => p[i] < p[j]

\* C2's case: the input was out of order and held a tie, and the sort moved
\* a transaction across the tie without swapping the tied pair.
C2_Witness ==
  /\ Built
  /\ Len(inputs) = 3
  /\ inputs[1].current_index > inputs[3].current_index
  /\ inputs[1].current_index = inputs[2].current_index
  /\ transactions = <<inputs[3], inputs[1], inputs[2]>>

\* C3: group_transactions() returns the maximal runs of consecutive
\* transactions with the same address: the groups concatenated are the
\* bundle's sequence, no group is empty, a group holds one address, and
\* the address changes from each group to the next.  The empty bundle has
\* no groups.
C3_Groups ==
  (op = "group_transactions") =>
    LET groups == out.val
    IN  /\ Concat(groups, Len(groups)) = transactions
        /\ \A g \in 1..Len(groups) :
             /\ Len(groups[g]) > 0
             /\ \A i, j \in 1..Len(groups[g]) :
                  groups[g][i].address = groups[g][j].address
        /\ \A g \in 1..(Len(groups) - 1) :
             groups[g][Len(groups[g])].address # groups[g + 1][1].address
        /\ (Len(transactions) = 0 => groups = <<>>)

\* C3's case: two consecutive transactions of one address make one group
\* and the transaction of another address after them makes the next.
C3_Witness ==
  /\ op = "group_transactions"
  /\ Len(transactions) = 3
  /\ Len(out.val) = 2
  /\ Len(out.val[1]) = 2

C3_WitnessEmpty ==
  /\ op = "group_transactions"
  /\ Len(transactions) = 0
  /\ out.val = <<>>

\* The messages get_messages owes under the policy errors, one for each
\* group that Test picks.
Owed(Test(_), errors) ==
  LET picked == SelectSeq(group_transactions(transactions), Test)
  IN  [i \in 1..Len(picked) |->
         decode(Buffer(picked[i]), DecodePolicy(errors)).val]

NoDecodeFailure(errors) ==
  LET groups == group_transactions(transactions)
  IN  \A g \in 1..Len(groups) :
        FirstNotNegative(groups[g]) =>
          decode(Buffer(groups[g]), DecodePolicy(errors)).raise = ""

\* C4: when no decoding fails, get_messages returns, in group order, one
\* message for every group whose first transaction has value >= 0, whatever
\* the group's buffer holds, and none for the other groups.
C4_OneMessagePerGroup ==
  (op = "get_messages" /\ NoDecodeFailure(arg)) =>
     /\ out.raise = ""
     /\ out.val = Owed(FirstNotNegative, arg)

\* C4 as amended: one message for every group whose first transaction has
\* value >= 0 and whose buffer holds a tryte other than '9'.
C4_OneMessagePerBearingGroup ==
  (op = "get_messages" /\ NoDecodeFailure(arg)) =>
     /\ out.raise = ""
     /\ out.val = Owed(MessageBearing, arg)

\* C4's case: a group led by an input is left out although a later
\* transaction of it has value >= 0, a group led by a value >= 0 gives its
\* message although it holds an input, and a blank group gives none.
C4_Witness ==
  /\ op = "get_messages"
  /\ NoDecodeFailure(arg)
  /\ LET groups == group_transactions(transactions)
     IN  /\ Len(groups) = 2
         /\ Len(groups[1]) = 2
         /\ groups[1][1].value >= 0
         /\ groups[1][2].value < 0
         /\ Truthy(Buffer(groups[1]))
         /\ groups[2][1].value >= 0
         /\ ~Truthy(Buffer(groups[2]))
  /\ Len(out.val) = 1

\* C5: under 'drop' no decode failure reaches the caller: a group that
\* fails to decode is left out and the other message-bearing groups still
\* give their messages in group order.  Under any other policy a failure the
\* decoder raises reaches the caller, and no list is returned.
C5_DropSuppresses ==
  (op = "get_messages") =>
    LET bearing == SelectSeq(group_transactions(transactions), MessageBearing)
        good    == SelectSeq(bearing, DecodesStrictly)
        failing == {g \in 1..Len(bearing) :
                      decode(Buffer(bearing[g]), DecodePolicy(arg)).raise # ""}
    IN  /\ arg = "drop" =>
             /\ out.raise = ""
             /\ out.val = [i \in 1..Len(good) |->
                             decode(Buffer(good[i]), "strict").val]
        /\ (arg # "drop" /\ failing # {}) =>
             /\ out.raise \in {"TrytesDecodeError", "UnicodeDecodeError"}
             /\ \E g \in failing :
                  /\ \A h \in failing : g <= h
                  /\ out = decode(Buffer(bearing[g]), arg)
             /\ out.val = None

\* C5's case: under 'drop', a group that fails to decode stands between two
\* groups that decode, and both messages come back.
C5_Witness ==
  /\ op = "get_messages"
  /\ arg = "drop"
  /\ LET groups == group_transactions(transactions)
     IN  /\ Len(groups) = 3
         /\ \A g \in 1..3 : MessageBearing(groups[g])
         /\ DecodesStrictly(groups[1])
         /\ ~DecodesStrictly(groups[2])
         /\ DecodesStrictly(groups[3])
  /\ Len(out.val) = 2

C5_WitnessStrict ==
  /\ op = "get_messages"
  /\ arg = "strict"
  /\ out.raise = "UnicodeDecodeError"

\* C6: a new bundle's flag is unknown; after a call of the is_confirmed
\* setter the bundle's flag and the flag of every transaction of the bundle
\* are the value of that call.
C6_Cascade ==
  /\ (op = "from_tryte_strings") => is_confirmed = "None"
  /\ (op = "is_confirmed") =>
        /\ is_confirmed = arg
        /\ \A i \in 1..Len(transactions) : transactions[i].is_confirmed = arg

\* C6's case: the setter has run with true on a bundle of several
\* transactions.
C6_Witness ==
  /\ op = "is_confirmed"
  /\ arg = "True"
  /\ Len(transactions) >= 2
  /\ \A i \in 1..Len(transactions) : transactions[i].is_confirmed = "True"

\* C7: Bundle.hash never fails: it is None on a bundle without transactions
\* and the bundle_hash of the transaction at index 0 otherwise.
C7_Hash ==
  (op = "hash") =>
     /\ out.raise = ""
     /\ out.val = IF Len(transactions) = 0 THEN None
                  ELSE transactions[1].bundle_hash

\* C7's case: the hash of the empty bundle was asked for.
C7_Witness ==
  /\ op = "hash"
  /\ Len(transactions) = 0
  /\ out = Return(None)

C7_WitnessTail ==
  /\ op = "hash"
  /\ Len(transactions) >= 2
  /\ transactions[2].bundle_hash # transactions[1].bundle_hash
  /\ out.val = transactions[1].bundle_hash

=============================================================================
